---- MODULE Spec2Model ----
(***************************************************************************)
(* Model of dock_prep/subprocess_handler.py: run_program, its helper       *)
(* construct_shell_command and the executor _run_subprocess_command.       *)
(*                                                                         *)
(* A path is a sequence of one-character strings, so that the string       *)
(* operations of the code (splitext, lower, lstrip, basename, dirname,     *)
(* join, replace) are computed as Python computes them.  The file system   *)
(* is the set of paths that exist.  External programs are opaque: their    *)
(* exit status and whether they write their output file are chosen         *)
(* nondeterministically.                                                   *)
(***************************************************************************)
EXTENDS Integers, Sequences, FiniteSets, TLC

(***************************************************************************)
(* Python string and os.path operations                                    *)
(***************************************************************************)
UpperChars == <<"A","B","C","D","E","F","G","H","I","J","K","L","M",
                "N","O","P","Q","R","S","T","U","V","W","X","Y","Z">>

LowerChars == <<"a","b","c","d","e","f","g","h","i","j","k","l","m",
                "n","o","p","q","r","s","t","u","v","w","x","y","z">>

\* str.lower() on one character
LowerChar(c) ==
    IF \E i \in 1..Len(UpperChars) : UpperChars[i] = c
    THEN LowerChars[CHOOSE i \in 1..Len(UpperChars) : UpperChars[i] = c]
    ELSE c

\* str.lower()
Lower(s) == [i \in 1..Len(s) |-> LowerChar(s[i])]

\* str.rfind(c) for a one-character c, 1-based; 0 when c does not occur
RFind(s, c) ==
    IF \E i \in 1..Len(s) : s[i] = c
    THEN CHOOSE i \in 1..Len(s) : s[i] = c /\ \A j \in (i+1)..Len(s) : s[j] # c
    ELSE 0

\* str.startswith(pre) at position i (1-based)
MatchAt(s, pre, i) ==
    /\ i + Len(pre) - 1 <= Len(s)
    /\ \A k \in 1..Len(pre) : s[i + k - 1] = pre[k]

\* str.lstrip('.')
RECURSIVE LStripDot(_)
LStripDot(s) ==
    IF s # <<>> /\ Head(s) = "." THEN LStripDot(Tail(s)) ELSE s

\* str.rstrip('/')
RECURSIVE RStripSep(_)
RStripSep(s) ==
    IF s # <<>> /\ s[Len(s)] = "/" THEN RStripSep(SubSeq(s, 1, Len(s) - 1)) ELSE s

\* str.replace(old, new): every non-overlapping occurrence, left to right,
\* compared character by character (case-sensitive)
RECURSIVE Replace(_, _, _)
Replace(s, old, new) ==
    IF s = <<>> THEN <<>>
    ELSE IF MatchAt(s, old, 1)
         THEN new \o Replace(SubSeq(s, Len(old) + 1, Len(s)), old, new)
         ELSE <<Head(s)>> \o Replace(Tail(s), old, new)

\* os.path.splitext(p)[1]
SplitextExt(p) ==
    LET sepIndex == RFind(p, "/")
        dotIndex == RFind(p, ".")
    IN IF /\ dotIndex > sepIndex
          /\ \E i \in (sepIndex + 1)..(dotIndex - 1) : p[i] # "."
       THEN SubSeq(p, dotIndex, Len(p))
       ELSE <<>>

\* os.path.splitext(p)[1].lower().lstrip('.')
Ext(p) == LStripDot(Lower(SplitextExt(p)))

\* os.path.basename
Basename(p) == SubSeq(p, RFind(p, "/") + 1, Len(p))

\* os.path.dirname
Dirname(p) ==
    LET head == SubSeq(p, 1, RFind(p, "/"))
    IN IF head # <<>> /\ \E i \in 1..Len(head) : head[i] # "/"
       THEN RStripSep(head)
       ELSE head

\* os.path.isabs
IsAbs(p) == p # <<>> /\ Head(p) = "/"

\* os.path.join(a, b)
Join(a, b) ==
    IF IsAbs(b) THEN b
    ELSE IF a = <<>> \/ a[Len(a)] = "/" THEN a \o b
    ELSE a \o <<"/">> \o b

\* os.path.abspath for a process whose working directory is dir.  The paths
\* drawn below hold no ".", ".." or doubled separators, on which normpath
\* changes nothing.
Abspath(dir, p) == IF IsAbs(p) THEN p ELSE Join(dir, p)

(***************************************************************************)
(* Literals of the source                                                  *)
(***************************************************************************)
MGLTools   == "MGLTools"
OpenBabel  == "OpenBabel"
MolProbity == "MolProbity"
PDB2PQR    == "PDB2PQR"

pqr      == <<"p","q","r">>
pdb      == <<"p","d","b">>
dot_pqr  == <<".","p","q","r">>
temp_pdb == <<"_","t","e","m","p",".","p","d","b">>

\* what an f-string writes for the value None
PyNone == <<"N","o","n","e">>

\* the dict literal of construct_shell_command, entry by entry in source order
format_map_items ==
    << <<pdb, pdb>>,
       <<pqr, pqr>>,
       << <<"m","o","l">>, <<"m","o","l">> >>,
       << <<"m","o","l","2">>, <<"m","o","l","2">> >>,
       << <<"s","d","f">>, <<"s","d","f">> >>,
       << <<"x","y","z">>, <<"x","y","z">> >>,
       << <<"p","d","b","q","t">>, <<"p","d","b","q","t">> >>,
       << <<"c","i","f">>, <<"m","m","c","i","f">> >>,
       << <<"c","i","f">>, <<"c","i","f">> >> >>

\* format_map.get(ext): a dict literal keeps the last value given for a key;
\* get returns None for a key that is absent
format_map_get(ext) ==
    LET hits == {i \in 1..Len(format_map_items) : format_map_items[i][1] = ext}
    IN IF hits = {} THEN PyNone
       ELSE format_map_items[CHOOSE i \in hits : \A j \in hits : j <= i][2]

\* timeouts of _run_subprocess_command, in seconds
Pdb2pqrTimeout == 1800
DefaultTimeout == 300

\* the timeout used when the caller passes none
TimeoutFor(tool_name) ==
    IF tool_name = PDB2PQR THEN Pdb2pqrTimeout ELSE DefaultTimeout

(***************************************************************************)
(* The environment the calls are drawn from                                *)
(***************************************************************************)
DirW  == <<"/","w">>
DirO  == <<"/","o">>
DirDq == <<"/","d",".","p","q","r">>
DirDt == <<"/","d","_","t","e","m","p",".","p","d","b">>
DirMb == <<"/","m","/","b","i","n">>
DirMu == <<"/","m","/","p","k","/","A","u","t","o","D","o","c","k","T","o","o","l","s",
           "/","U","t","i","l","i","t","i","e","s","2","4">>
DirPb == <<"/","p","/","b","i","n">>

\* the directories that exist (none is created or removed by the code)
Dirs == {DirW, DirO, DirDq, DirDt, DirMb, DirMu, DirPb}

\* values of the configuration mapping
EnvValue(key) ==
    CASE key = "MGL_BIN"        -> DirMb
      [] key = "MGL_PACKAGES"   -> <<"/","m","/","p","k">>
      [] key = "MOLPROBITY_BIN" -> DirPb
      [] OTHER                  -> <<"m","g","l">>

EnvKeys == {"MGL_BIN", "MGL_PACKAGES", "MGL_ENV_NAME", "MOLPROBITY_BIN"}

ConfigPath == DirW \o <<"/","c",".","j","s","o","n">>

\* paths construct_shell_command builds from the configuration
pythonsh == Join(EnvValue("MGL_BIN"), <<"p","y","t","h","o","n","s","h">>)

prepare_receptor_script ==
    Join(Join(Join(EnvValue("MGL_PACKAGES"),
                   <<"A","u","t","o","D","o","c","k","T","o","o","l","s">>),
              <<"U","t","i","l","i","t","i","e","s","2","4">>),
         <<"p","r","e","p","a","r","e","_","r","e","c","e","p","t","o","r","4",".","p","y">>)

reduce == Join(EnvValue("MOLPROBITY_BIN"), <<"r","e","d","u","c","e">>)

probe == Join(EnvValue("MOLPROBITY_BIN"), <<"p","r","o","b","e">>)

\* the tool binaries, where they are installed
Binaries == {pythonsh, prepare_receptor_script, reduce, probe}

In_a_pdb  == DirW \o <<"/","a",".","p","d","b">>
In_a_pqr  == DirW \o <<"/","a",".","p","q","r">>
In_a_PQR  == DirW \o <<"/","a",".","P","Q","R">>
In_d_PQR  == DirDq \o <<"/","a",".","P","Q","R">>
In_a_cif  == DirW \o <<"/","a",".","c","i","f">>
In_a_foo  == DirW \o <<"/","a",".","f","o","o">>
In_b_pqr  == DirW \o <<"/","b",".","p","q","r">>
In_rel    == <<"a",".","p","q","r">>

\* a temporary file left behind by an earlier call on b.pqr
StaleTemp == DirW \o <<"/","b","_","t","e","m","p",".","p","d","b">>

\* the input files that exist
InputFiles == {In_a_pdb, In_a_pqr, In_a_PQR, In_d_PQR, In_a_cif, In_a_foo, In_b_pqr}

\* input_path arguments: absolute ones, and one relative to the working directory
InputArgs == InputFiles \cup {In_rel}

\* output_path arguments: beside the input, in another directory, an upper-case
\* extension, and an unknown extension in a directory that does not exist
OutputArgs ==
    { DirW \o <<"/","r",".","p","d","b","q","t">>,
      DirO \o <<"/","r",".","p","d","b","q","t">>,
      DirW \o <<"/","r",".","C","I","F">>,
      <<"/","x","/","r",".","f","o","o">> }

\* config_file arguments: absolute, and relative to the working directory
ConfigArgs == {ConfigPath, <<"c",".","j","s","o","n">>}

\* tool_name arguments: the four tools and a name the code does not know
ToolArgs == {MGLTools, OpenBabel, MolProbity, PDB2PQR, "Other"}

\* the number of calls of run_program made one after the other on the same
\* file system
MaxCalls == 1

\* working directories the process may be started in
StartDirs == {DirW, DirO}

\* states of the configuration: complete, file absent, not JSON, a key
\* missing (read late / read early), tool binaries absent
ConfigScenarios ==
    { [present |-> TRUE,  parses |-> TRUE,  keys |-> EnvKeys, binaries |-> TRUE],
      [present |-> FALSE, parses |-> TRUE,  keys |-> EnvKeys, binaries |-> TRUE],
      [present |-> TRUE,  parses |-> FALSE, keys |-> EnvKeys, binaries |-> TRUE],
      [present |-> TRUE,  parses |-> TRUE,  keys |-> EnvKeys \ {"MGL_ENV_NAME"}, binaries |-> TRUE],
      [present |-> TRUE,  parses |-> TRUE,  keys |-> {"MGL_PACKAGES", "MGL_ENV_NAME"}, binaries |-> TRUE],
      [present |-> TRUE,  parses |-> TRUE,  keys |-> EnvKeys, binaries |-> FALSE] }

(***************************************************************************)
(* State                                                                   *)
(***************************************************************************)
VARIABLES
    pc,               \* position in run_program
    files,            \* the files that exist
    cwd,              \* os.getcwd() of the process
    config,           \* content of the configuration file
    conda_env_set,    \* whether CONDA_DEFAULT_ENV is set
    tool_name, config_file,
    abs_input_path, abs_output_path, input_ext, temp_pdb_path,
    command,          \* the command string, as its parts
    original_cwd,     \* saved by _run_subprocess_command
    success,          \* return value of _run_subprocess_command
    result,           \* how run_program ended: "True", "False" or the exception
    executed,         \* history: the processes spawned, in order
    start,            \* history: cwd, input path and its existence when the call began
    pre,              \* history: what the pre-conversion did
    main,             \* history: what the main process did
    removed,          \* history: the files this layer deleted
    calls             \* history: the calls of run_program begun so far

vars == <<pc, files, cwd, config, conda_env_set, tool_name, config_file,
          abs_input_path, abs_output_path, input_ext, temp_pdb_path, command,
          original_cwd, success, result, executed, start, pre, main, removed, calls>>

(***************************************************************************)
(* construct_shell_command                                                 *)
(***************************************************************************)
\* a command string, as the parts the claims read: the tool, the input and
\* output as written in the command, the -i/-o format codes (OpenBabel) and
\* whether the charge-preserving flags -C -U nphs_lps are present (MGLTools)
Cmd(tool, inp, out, ifmt, ofmt, charge) ==
    [kind |-> "cmd", err |-> "", tool |-> tool, inp |-> inp, out |-> out,
     ifmt |-> ifmt, ofmt |-> ofmt, charge |-> charge]

\* construct_shell_command raised err
Raised(err) ==
    [kind |-> "error", err |-> err, tool |-> "", inp |-> <<>>, out |-> <<>>,
     ifmt |-> <<>>, ofmt |-> <<>>, charge |-> FALSE]

\* construct_shell_command fell off its if/elif chain and returned None
NoCommand ==
    [kind |-> "none", err |-> "", tool |-> "", inp |-> <<>>, out |-> <<>>,
     ifmt |-> <<>>, ofmt |-> <<>>, charge |-> FALSE]

\* os.path.exists(p) for a process whose working directory is dir
Exists(dir, p) == Abspath(dir, p) \in files \cup Dirs

\* get_env_vars: "ok" when the mapping is returned, else the exception
get_env_vars(cfile, dir) ==
    IF ~Exists(dir, cfile) THEN "FileNotFoundError"
    ELSE IF ~config.parses THEN "JSONDecodeError"
    ELSE "ok"

\* the MGLTools branch: configuration lookups in source order, then the
\* bare file names and the flag set chosen by the input extension
MGLToolsCommand(abs_in, abs_out, cfile, dir) ==
    LET loaded == get_env_vars(cfile, dir)
        input_filename  == IF IsAbs(abs_in) THEN Basename(abs_in) ELSE abs_in
        output_filename == IF IsAbs(abs_out) THEN Basename(abs_out) ELSE abs_out
    IN IF loaded # "ok" THEN Raised(loaded)
       ELSE IF "MGL_BIN" \notin config.keys THEN Raised("KeyError")
       ELSE IF "MGL_PACKAGES" \notin config.keys THEN Raised("KeyError")
       ELSE IF ~Exists(dir, pythonsh) THEN Raised("FileNotFoundError")
       ELSE IF ~Exists(dir, prepare_receptor_script) THEN Raised("FileNotFoundError")
       ELSE IF "MGL_ENV_NAME" \notin config.keys THEN Raised("KeyError")
       ELSE Cmd(MGLTools, input_filename, output_filename, <<>>, <<>>,
                Ext(abs_in) = pqr)

\* the OpenBabel branch
OpenBabelCommand(abs_in, abs_out) ==
    Cmd(OpenBabel, abs_in, abs_out,
        format_map_get(Ext(abs_in)), format_map_get(Ext(abs_out)), FALSE)

\* the MolProbity branch
MolProbityCommand(abs_in, abs_out, cfile, dir) ==
    LET loaded == get_env_vars(cfile, dir)
    IN IF loaded # "ok" THEN Raised(loaded)
       ELSE IF "MOLPROBITY_BIN" \notin config.keys THEN Raised("KeyError")
       ELSE IF ~Exists(dir, reduce) THEN Raised("FileNotFoundError")
       ELSE IF ~Exists(dir, probe) THEN Raised("FileNotFoundError")
       ELSE Cmd(MolProbity, abs_in, abs_out, <<>>, <<>>, FALSE)

construct_shell_command(tool, abs_in, abs_out, cfile, dir) ==
    CASE tool = MGLTools   -> MGLToolsCommand(abs_in, abs_out, cfile, dir)
      [] tool = OpenBabel  -> OpenBabelCommand(abs_in, abs_out)
      [] tool = MolProbity -> MolProbityCommand(abs_in, abs_out, cfile, dir)
      [] tool = PDB2PQR    -> Cmd(PDB2PQR, abs_in, abs_out, <<>>, <<>>, FALSE)
      [] OTHER             -> NoCommand

(***************************************************************************)
(* External processes                                                      *)
(***************************************************************************)
\* outcomes of subprocess.run(..., check=True): without a timeout argument
\* (the pre-conversion) and with one (the main command)
ExitsNoTimeout == {"ok", "nonzero"}
Exits == {"ok", "nonzero", "timeout"}

\* the file a command names as its output, seen from the directory it runs in
Target(cmd, dir) == Abspath(dir, cmd.out)

\* the files a spawned command leaves: its output when it wrote one, and in
\* any case for MolProbity, whose command is "reduce ... > output" (the shell
\* creates the redirection target before reduce starts); nothing when the
\* target's directory does not exist
Leaves(cmd, dir, wrote) ==
    IF Dirname(Target(cmd, dir)) \in Dirs /\ (wrote \/ cmd.tool = MolProbity)
    THEN {Target(cmd, dir)}
    ELSE {}

\* one entry of the history of spawned processes
Spawn(cmd, dir, left, timeout) ==
    [cmd |-> cmd, dir |-> dir, left |-> left, timeout |-> timeout]

\* get_conda_env: with CONDA_DEFAULT_ENV unset it runs "conda info --envs"
CondaSpawns(dir) ==
    IF conda_env_set THEN <<>>
    ELSE << Spawn([NoCommand EXCEPT !.kind = "cmd", !.tool = "conda"], dir, {}, 0) >>

(***************************************************************************)
(* run_program                                                             *)
(***************************************************************************)
\* temp_pdb_path = abs_input_path.replace('.pqr', '_temp.pdb')
TempPath(abs_in) == Replace(abs_in, dot_pqr, temp_pdb)

\* a variant that never substitutes the temporary file for the input
EffectiveInput_KeepsInput(exit, temp_exists, abs_in, temp) == abs_in

\* the input of the remainder of the call after the pre-conversion: the
\* temporary file when obabel exited 0 and the file exists, else the input
EffectiveInput(exit, temp_exists, abs_in, temp) ==
    IF exit = "ok" /\ temp_exists THEN temp ELSE abs_in

\* the special case is taken for MGLTools with a pqr extension
NeedsPreConversion(tool, ext) == tool = MGLTools /\ ext = pqr

NoPre == [ran |-> FALSE, exit |-> "none", produced |-> FALSE, temp_after |-> FALSE]

NoMain == [ran |-> FALSE, exit |-> "none", out_after |-> FALSE, runs |-> 0]

Init ==
    /\ pc = "idle"
    /\ cwd \in StartDirs
    /\ config \in ConfigScenarios
    /\ conda_env_set \in BOOLEAN
    /\ files = InputFiles \cup {StaleTemp}
                 \cup (IF config.present THEN {ConfigPath} ELSE {})
                 \cup (IF config.binaries THEN Binaries ELSE {})
    /\ tool_name = ""
    /\ config_file = <<>>
    /\ abs_input_path = <<>>
    /\ abs_output_path = <<>>
    /\ input_ext = <<>>
    /\ temp_pdb_path = <<>>
    /\ command = NoCommand
    /\ original_cwd = <<>>
    /\ success = "none"
    /\ result = "none"
    /\ executed = <<>>
    /\ start = [cwd |-> <<>>, input |-> <<>>, existed |-> FALSE]
    /\ pre = NoPre
    /\ main = NoMain
    /\ removed = {}
    /\ calls = 0

\* run_program, up to the pre-conversion: absolute paths, the input check,
\* the extension and the temporary path
Begin(tool, input_path, output_path, cfile) ==
    LET abs_in == Abspath(cwd, input_path)
        ext    == Ext(abs_in)
    IN /\ pc = "idle"
       /\ calls < MaxCalls
       /\ calls' = calls + 1
       /\ tool_name' = tool
       /\ config_file' = cfile
       /\ abs_input_path' = abs_in
       /\ abs_output_path' = Abspath(cwd, output_path)
       /\ start' = [cwd |-> cwd, input |-> abs_in, existed |-> Exists(cwd, abs_in)]
       /\ IF ~Exists(cwd, abs_in)
          THEN /\ pc' = "done"
               /\ result' = "FileNotFoundError"
               /\ UNCHANGED <<input_ext, temp_pdb_path>>
          ELSE /\ input_ext' = ext
               /\ result' = result
               /\ IF NeedsPreConversion(tool, ext)
                  THEN /\ temp_pdb_path' = TempPath(abs_in)
                       /\ pc' = "preconvert"
                  ELSE /\ temp_pdb_path' = temp_pdb_path
                       /\ pc' = "construct"
       /\ UNCHANGED <<files, cwd, config, conda_env_set, command, original_cwd,
                      success, executed, pre, main, removed>>

\* the pre-conversion: obabel -ipqr <input> -opdb -O <temp>, run without a
\* timeout; any exception is logged and the call goes on with the input
PreConvert(exit, wrote) ==
    LET obabel_command == Cmd(OpenBabel, abs_input_path, temp_pdb_path, pqr, pdb, FALSE)
        left   == Leaves(obabel_command, cwd, wrote)
        after  == files \cup left
        temp_exists == temp_pdb_path \in after \cup Dirs
    IN /\ pc = "preconvert"
       /\ files' = after
       /\ executed' = Append(executed, Spawn(obabel_command, cwd, left, 0))
       /\ pre' = [ran |-> TRUE, exit |-> exit, produced |-> left # {},
                  temp_after |-> temp_exists]
       /\ abs_input_path' = EffectiveInput(exit, temp_exists,
                                           abs_input_path, temp_pdb_path)
       /\ pc' = "construct"
       /\ UNCHANGED <<cwd, config, conda_env_set, tool_name, config_file,
                      abs_output_path, input_ext, temp_pdb_path, command,
                      original_cwd, success, result, start, main, removed, calls>>

\* construct_shell_command and the check of its result
Construct ==
    LET built == construct_shell_command(tool_name, abs_input_path, abs_output_path,
                                         config_file, cwd)
    IN /\ pc = "construct"
       /\ command' = built
       /\ IF built.kind = "error"
          THEN pc' = "done" /\ result' = built.err
          ELSE IF built.kind = "none"
          THEN pc' = "done" /\ result' = "ValueError"
          ELSE pc' = "run" /\ result' = result
       /\ UNCHANGED <<files, cwd, config, conda_env_set, tool_name, config_file,
                      abs_input_path, abs_output_path, input_ext, temp_pdb_path,
                      original_cwd, success, executed, start, pre, main, removed, calls>>

(***************************************************************************)
(* _run_subprocess_command                                                 *)
(***************************************************************************)
\* a variant without the finally block: the directory stays where it is
RestoredCwd_Unrestored(saved, current) == current

\* the finally block: the working directory after it
RestoredCwd(saved, current) == IF current # saved THEN saved ELSE current

\* a variant whose non-zero-exit leniency is not limited to MolProbity
run_result_AnyToolTolerated(tool, exit, out_exists) ==
    CASE exit = "nonzero" -> IF out_exists THEN "True" ELSE "CalledProcessError"
      [] exit = "timeout" -> "TimeoutExpired"
      [] OTHER -> IF out_exists THEN "True" ELSE "False"

\* a variant that extends the MolProbity leniency to a timeout
run_result_TimeoutTolerated(tool, exit, out_exists) ==
    CASE exit = "nonzero" ->
           IF tool = MolProbity /\ out_exists THEN "True" ELSE "CalledProcessError"
      [] exit = "timeout" ->
           IF tool = MolProbity /\ out_exists THEN "True" ELSE "TimeoutExpired"
      [] OTHER -> IF out_exists THEN "True" ELSE "False"

\* how the executor ends once the process has ended: the value it returns
\* ("True", "False") or the exception it lets through
run_result(tool, exit, out_exists) ==
    CASE exit = "nonzero" ->
           IF tool = MolProbity /\ out_exists THEN "True" ELSE "CalledProcessError"
      [] exit = "timeout" -> "TimeoutExpired"
      [] OTHER -> IF out_exists THEN "True" ELSE "False"

\* the directory the MGLTools command runs in: the input's directory, or the
\* current one when dirname is empty
RunDir(abs_in, current) ==
    IF Dirname(abs_in) # <<>> THEN Dirname(abs_in) ELSE current

\* entry of _run_subprocess_command: save the working directory, query the
\* conda environment and, for MGLTools, change to the input's directory and
\* rebuild the command from the bare file names; an error of the rebuild
\* leaves through the finally block
RunEnter ==
    LET new_dir == IF tool_name = MGLTools THEN RunDir(abs_input_path, cwd) ELSE cwd
        rebuilt == IF tool_name = MGLTools
                   THEN construct_shell_command(tool_name, Basename(abs_input_path),
                                                Basename(abs_output_path),
                                                config_file, new_dir)
                   ELSE command
    IN /\ pc = "run"
       /\ original_cwd' = cwd
       /\ executed' = executed \o CondaSpawns(cwd)
       /\ IF rebuilt.kind = "error"
          THEN /\ cwd' = RestoredCwd(cwd, new_dir)
               /\ command' = command
               /\ result' = rebuilt.err
               /\ pc' = "done"
          ELSE /\ cwd' = new_dir
               /\ command' = rebuilt
               /\ result' = result
               /\ pc' = "exec"
       /\ UNCHANGED <<files, config, conda_env_set, tool_name, config_file,
                      abs_input_path, abs_output_path, input_ext, temp_pdb_path,
                      success, start, pre, main, removed, calls>>

\* subprocess.run of the command with its timeout, the exit-status handling,
\* the output check and the finally block
RunExec(exit, wrote) ==
    LET left       == Leaves(command, cwd, wrote)
        after      == files \cup left
        out_exists == abs_output_path \in after \cup Dirs
        outcome    == run_result(tool_name, exit, out_exists)
    IN /\ pc = "exec"
       /\ files' = after
       /\ executed' = Append(executed, Spawn(command, cwd, left, TimeoutFor(tool_name)))
       /\ main' = [ran |-> TRUE, exit |-> exit, out_after |-> out_exists,
                   runs |-> main.runs + 1]
       /\ cwd' = RestoredCwd(original_cwd, cwd)
       /\ IF outcome \in {"True", "False"}
          THEN success' = outcome /\ result' = result /\ pc' = "cleanup"
          ELSE success' = success /\ result' = outcome /\ pc' = "done"
       /\ UNCHANGED <<config, conda_env_set, tool_name, config_file,
                      abs_input_path, abs_output_path, input_ext, temp_pdb_path,
                      command, original_cwd, start, pre, removed, calls>>

\* the end of run_program: remove the temporary file if the special case was
\* taken and the file exists (a failure of os.remove is logged), and return
Cleanup(remove_ok) ==
    /\ pc = "cleanup"
    /\ IF /\ NeedsPreConversion(tool_name, input_ext)
          /\ Exists(cwd, temp_pdb_path)
          /\ remove_ok
       THEN /\ files' = files \ {temp_pdb_path}
            /\ removed' = removed \cup {temp_pdb_path}
       ELSE UNCHANGED <<files, removed>>
    /\ result' = success
    /\ pc' = "done"
    /\ UNCHANGED <<cwd, config, conda_env_set, tool_name, config_file,
                   abs_input_path, abs_output_path, input_ext, temp_pdb_path,
                   command, original_cwd, success, executed, start, pre, main, calls>>

\* the caller takes the result; the next call starts from the files and the
\* working directory this one left
Return ==
    /\ pc = "done"
    /\ pc' = "idle"
    /\ tool_name' = ""
    /\ config_file' = <<>>
    /\ abs_input_path' = <<>>
    /\ abs_output_path' = <<>>
    /\ input_ext' = <<>>
    /\ temp_pdb_path' = <<>>
    /\ command' = NoCommand
    /\ original_cwd' = <<>>
    /\ success' = "none"
    /\ result' = "none"
    /\ executed' = <<>>
    /\ start' = [cwd |-> <<>>, input |-> <<>>, existed |-> FALSE]
    /\ pre' = NoPre
    /\ main' = NoMain
    /\ removed' = {}
    /\ UNCHANGED <<files, cwd, config, conda_env_set, calls>>

Next ==
    \/ \E tool \in ToolArgs, input_path \in InputArgs,
          output_path \in OutputArgs, cfile \in ConfigArgs :
            Begin(tool, input_path, output_path, cfile)
    \/ \E exit \in ExitsNoTimeout, wrote \in BOOLEAN : PreConvert(exit, wrote)
    \/ Construct
    \/ RunEnter
    \/ \E exit \in Exits, wrote \in BOOLEAN : RunExec(exit, wrote)
    \/ \E remove_ok \in BOOLEAN : Cleanup(remove_ok)
    \/ Return

Spec == Init /\ [][Next]_vars

(***************************************************************************)
(* Properties                                                              *)
(***************************************************************************)
\* str.endswith
EndsWith(s, suffix) ==
    Len(s) >= Len(suffix) /\ MatchAt(s, suffix, Len(s) - Len(suffix) + 1)

\* the spawned processes of the current call that ran a command of the tool
RunsOf(tool) == {i \in 1..Len(executed) : executed[i].cmd.tool = tool}

\* the call ended by an exception rather than by returning True or False
EndedByException == pc = "done" /\ result \notin {"True", "False"}

\* C1: for MGLTools with a .pqr input whose pre-conversion created the
\* temporary file, the temporary file does not exist once the call has ended,
\* however it ended.
C1_TempFileGoneWhenCallEnds ==
    (pc = "done" /\ tool_name = MGLTools /\ input_ext = pqr /\ pre.produced)
        => temp_pdb_path \notin files

\* C2: whenever _run_subprocess_command has ended (returned True or False, or
\* let a non-zero exit, a timeout or a rebuild error through), the working
\* directory is the one the call started with.
C2_CwdRestoredAfterRun ==
    (pc \in {"cleanup", "done"} /\ original_cwd # <<>>)
        => cwd = original_cwd /\ cwd = start.cwd

\* C2 witness: an MGLTools command ran in another directory than the starting
\* one, timed out, and the call has ended
C2_Witness ==
    /\ pc = "done"
    /\ tool_name = MGLTools
    /\ result = "TimeoutExpired"
    /\ main.ran
    /\ executed[Len(executed)].dir # start.cwd

\* C3: a non-zero exit of the main process ends in success exactly when the
\* tool is MolProbity and the output file exists after the process; in every
\* other case the call ends with the CalledProcessError.
C3_NonZeroExitTolerance ==
    (main.ran /\ main.exit = "nonzero")
        => IF tool_name = MolProbity /\ main.out_after
           THEN success = "True" /\ (pc = "done" => result = "True")
           ELSE pc = "done" /\ result = "CalledProcessError"

\* C3 witness: MolProbity exited non-zero with its output present and the
\* call returned True
C3_Witness ==
    /\ pc = "done"
    /\ tool_name = MolProbity
    /\ main.exit = "nonzero"
    /\ main.out_after
    /\ result = "True"

\* C4: a timeout of the main process always ends the call with
\* TimeoutExpired, for every tool and whether or not the output file exists,
\* and the command was run once.
C4_TimeoutIsFatal ==
    (main.ran /\ main.exit = "timeout")
        => /\ pc = "done"
           /\ result = "TimeoutExpired"
           /\ success = "none"
           /\ main.runs = 1

\* C4 witness: MolProbity timed out with its output file present
C4_Witness ==
    /\ pc = "done"
    /\ tool_name = MolProbity
    /\ main.exit = "timeout"
    /\ main.out_after
    /\ result = "TimeoutExpired"

\* C5: a call that ends with a configuration error (file absent, unparsable,
\* key missing, tool binary absent) or an input-file-not-found error has
\* spawned no external process.
C5_FailFastBeforeSpawn ==
    (pc = "done" /\ result \in {"FileNotFoundError", "JSONDecodeError", "KeyError"})
        => executed = <<>>

\* C6: no OpenBabel command with an absent format code is executed, and an
\* OpenBabel call whose input or output extension is not in the table ends
\* with an error without having spawned a process.
C6_UnknownFormatRejected ==
    /\ \A i \in RunsOf(OpenBabel) :
          executed[i].cmd.ifmt # PyNone /\ executed[i].cmd.ofmt # PyNone
    /\ ( /\ pc = "done"
         /\ tool_name = OpenBabel
         /\ start.existed
         /\ \/ format_map_get(Ext(abs_input_path)) = PyNone
            \/ format_map_get(Ext(abs_output_path)) = PyNone )
           => EndedByException /\ executed = <<>>

\* C7: for an input with extension pqr in any letter case the temporary path
\* differs from the input path, no spawned process writes the input path, an
\* input that existed still exists when the call has ended, and only the
\* temporary file is deleted.
C7_InputOnlyRead ==
    /\ (tool_name = MGLTools /\ input_ext = pqr /\ pc # "idle")
           => temp_pdb_path # start.input
    /\ \A i \in 1..Len(executed) : start.input \notin executed[i].left
    /\ (pc = "done" /\ start.existed) => start.input \in files
    /\ removed \subseteq {temp_pdb_path}

\* the table of C8: extension -> converter format code
C8_Table(ext) ==
    IF ext = <<"c","i","f">> THEN <<"m","m","c","i","f">> ELSE ext

C8_Recognized ==
    { pdb, pqr, <<"m","o","l">>, <<"m","o","l","2">>, <<"s","d","f">>,
      <<"x","y","z">>, <<"p","d","b","q","t">>, <<"c","i","f">> }

\* C8: an OpenBabel command built for recognized extensions carries after -i
\* the table's code of the input extension and after -o the table's code of
\* the output extension, whatever the letter case of the extensions.
C8_FormatCodes ==
    ( /\ command.kind = "cmd"
      /\ command.tool = OpenBabel
      /\ Ext(command.inp) \in C8_Recognized
      /\ Ext(command.out) \in C8_Recognized )
        => /\ command.ifmt = C8_Table(Ext(command.inp))
           /\ command.ofmt = C8_Table(Ext(command.out))

\* C9: an executed MGLTools command names its output by the bare file name,
\* runs in the input's directory, and the file it is told to write is the
\* absolute output path whose existence decides success.
C9_WrittenFileIsCheckedFile ==
    \A i \in RunsOf(MGLTools) :
        /\ executed[i].cmd.out = Basename(abs_output_path)
        /\ executed[i].dir = Dirname(abs_input_path)
        /\ Target(executed[i].cmd, executed[i].dir) = abs_output_path

====
